---- MODULE Spec2Model ----
(***************************************************************************)
(* Particle-Morph: the particle field of src/src/App.tsx.                  *)
(*                                                                         *)
(* Numbers.  The program computes on IEEE doubles; the model uses fixed    *)
(* point.  Lengths (positions, targets, velocities) are in quarter pixels  *)
(* (UNIT per pixel), so width / 2 and the jitter steps are exact.          *)
(* Opacity, twinkleSpeed, ease, friction and sizes are in thousandths.     *)
(* A value of Math.random() is a percentage r in 0..99 standing for        *)
(* r / 100.  Products that do not divide are truncated toward zero.        *)
(***************************************************************************)
EXTENDS Integers, Sequences, FiniteSets, TLC

\* ---------------------------------------------------------------- bounds
\* Number of particles of the model (the program runs PARTICLE_COUNT = 2800).
PARTICLE_COUNT == 2
\* Most text changes, resizes, pointer events and unmounts of one behaviour.
MaxEvents == 2
\* Most executions of animate of one behaviour.
MaxTicks == 3

\* How many update() calls the particle taken alone is followed for.
MaxUpdates == 24

\* ------------------------------------------------------------- constants
HEART_SCALE == 14
BASE_TEXT_SIZE == 150
MOUSE_RADIUS == 100
COLORS == <<"#ff2d55", "#ff375f", "#ff1744", "#f50057", "#d500f9">>

\* Quarter pixels per pixel, and thousandths per one.
UNIT == 2 * 2
MILLI == 10 * 100

\* ------------------------------------------------------------ arithmetic
\* a / b truncated toward zero (b > 0).
Div(a, b) == IF a >= 0 THEN a \div b ELSE -((-a) \div b)

\* Math.floor of the non-negative rational a / b.
Floor(a, b) == a \div b

\* Math.sqrt, rounded down.
Sqrt(n) == CHOOSE r \in 0..n : r * r <= n /\ (r + 1) * (r + 1) > n

Min(a, b) == IF a < b THEN a ELSE b

\* -------------------------------------------------------------- the text
\* A text is a sequence of characters, of which " " is white space.
WhiteSpace == {" "}

RECURSIVE TrimStart(_)
TrimStart(s) ==
  IF s # <<>> /\ Head(s) \in WhiteSpace THEN TrimStart(Tail(s)) ELSE s

RECURSIVE TrimEnd(_)
TrimEnd(s) ==
  IF s # <<>> /\ s[Len(s)] \in WhiteSpace
    THEN TrimEnd(SubSeq(s, 1, Len(s) - 1))
    ELSE s

\* String.prototype.trim
Trim(s) == TrimEnd(TrimStart(s))

\* The values the input element delivers.
Texts == {<<>>, <<" ">>, <<" ", "A">>}

\* ----------------------------------------------------------- Math.random
\* One point of a sampler consumes up to three values of Math.random():
\* the heart one (t), the text sampler three (index, jitter x, jitter y).
\* The first value of a triple is a multiple of 25, so that the heart's angle
\* t = 2 * PI * r / 100 is a whole number of quarter turns.
PointDraws == <<(<<0, 0, 50>>), (<<75, 99, 0>>), (<<50, 50, 99>>)>>

\* The random values of one sampler call, one triple per point: two runs of
\* the generator.
SamplerDraws ==
  { [i \in 1..PARTICLE_COUNT |-> PointDraws[(i % 2) + 1]],
    [i \in 1..PARTICLE_COUNT |-> PointDraws[((2 * i) % 3) + 1]] }

\* The nine values one Particle constructor consumes, in program order:
\* x, y, vx, vy, baseSize, ease, color, opacity, twinkleSpeed.
CtorDraws ==
  << (<<50, 50, 0, 99, 0, 0, 0, 0, 0>>),
     (<<0, 99, 50, 50, 50, 50, 99, 50, 50>>),
     (<<99, 0, 99, 0, 99, 99, 50, 99, 99>>) >>

\* The random values of the constructors of one population: two runs of the
\* generator.
ParticleDraws ==
  { [i \in 1..PARTICLE_COUNT |-> CtorDraws[(i % 2) + 1]],
    [i \in 1..PARTICLE_COUNT |-> CtorDraws[((2 * i) % 3) + 1]] }

\* ------------------------------------------------------------- Particle
\* new Particle(x, y), constructed as object number id, with the window
\* size (w, h) in pixels and the nine random values r.
NewParticle(id, tx, ty, w, h, r) ==
  [ id |-> id,
    x |-> Div(r[1] * w * UNIT, 100),
    y |-> Div(r[2] * h * UNIT, 100),
    targetX |-> tx,
    targetY |-> ty,
    vx |-> Div((r[3] - 50) * 10 * UNIT, 100),
    vy |-> Div((r[4] - 50) * 10 * UNIT, 100),
    baseSize |-> 15 * r[5] + 800,
    size |-> 15 * r[5] + 800,
    friction |-> 900,
    ease |-> 50 + Div(r[6] * 50, 100),
    color |-> COLORS[Floor(r[7] * Len(COLORS), 100) + 1],
    opacity |-> r[8] * 10,
    twinkleSpeed |-> 10 + Div(r[9] * 20, 100) ]

\* The twinkle of update(): the opacity and the twinkle speed after one call.
TwinkleOpacity(opacity, twinkleSpeed) == opacity + twinkleSpeed

\* A twinkle that loses half its speed whenever it turns round.
TwinkleSpeedDamped(opacity, twinkleSpeed) ==
  IF TwinkleOpacity(opacity, twinkleSpeed) > 1000
     \/ TwinkleOpacity(opacity, twinkleSpeed) < 400
    THEN -Div(twinkleSpeed, 2)
    ELSE twinkleSpeed

\* twinkleSpeed after one update(): negated when the new opacity left [0.4, 1].
TwinkleSpeed(opacity, twinkleSpeed) ==
  IF TwinkleOpacity(opacity, twinkleSpeed) > 1000
     \/ TwinkleOpacity(opacity, twinkleSpeed) < 400
    THEN -twinkleSpeed
    ELSE twinkleSpeed

\* The impulse of the mouse on one axis: d is the particle's offset from the
\* mouse on that axis, other the offset on the other axis, main tells the x
\* axis (atan2(0, 0) = 0, so at distance 0 the whole push is along x).
MousePush(d, other, main) ==
  LET distSq == d * d + other * other
      radius == MOUSE_RADIUS * UNIT
      dist == Sqrt(distSq)
  IN  IF distSq < radius * radius
        THEN IF dist = 0
               THEN IF main THEN 15 * UNIT ELSE 0
               ELSE Div(d * 15 * UNIT * (radius - dist), dist * radius)
        ELSE 0

\* An update() that lets the particle choose its own target: where it is.
UpdateChoosingTarget(p, mouseX, mouseY) ==
  [p EXCEPT !.targetX = p.x, !.targetY = p.y]

\* An update() whose spring pushes the particle away from its target.
UpdateRepelling(p, mouseX, mouseY) ==
  LET vx3 == Div((p.vx - Div((p.targetX - p.x) * p.ease, MILLI)) * p.friction, MILLI)
      vy3 == Div((p.vy - Div((p.targetY - p.y) * p.ease, MILLI)) * p.friction, MILLI)
  IN  [p EXCEPT !.vx = vx3,
                !.vy = vy3,
                !.x = p.x + vx3,
                !.y = p.y + vy3,
                !.opacity = TwinkleOpacity(p.opacity, p.twinkleSpeed),
                !.twinkleSpeed = TwinkleSpeed(p.opacity, p.twinkleSpeed)]

\* Particle.update(mouseX, mouseY)
Update(p, mouseX, mouseY) ==
  LET dx == p.targetX - p.x
      dy == p.targetY - p.y
      vx1 == p.vx + Div(dx * p.ease, MILLI)
      vy1 == p.vy + Div(dy * p.ease, MILLI)
      mdx == p.x - mouseX
      mdy == p.y - mouseY
      vx2 == vx1 + MousePush(mdx, mdy, TRUE)
      vy2 == vy1 + MousePush(mdy, mdx, FALSE)
      vx3 == Div(vx2 * p.friction, MILLI)
      vy3 == Div(vy2 * p.friction, MILLI)
  IN  [p EXCEPT !.vx = vx3,
                !.vy = vy3,
                !.x = p.x + vx3,
                !.y = p.y + vy3,
                !.opacity = TwinkleOpacity(p.opacity, p.twinkleSpeed),
                !.twinkleSpeed = TwinkleSpeed(p.opacity, p.twinkleSpeed)]

\* ------------------------------------------------------------ the heart
\* Math.sin and Math.cos of k quarter turns.
Sin(k) == <<0, 1, 0, -1>>[(k % 4) + 1]

Cos(k) == <<1, 0, -1, 0>>[(k % 4) + 1]

\* The quarter turns of t = Math.random() * Math.PI * 2 for the random value r.
QuarterTurns(r) == Div(r * 4, 100)

\* One point of getHeartPoints, in quarter pixels.
HeartPoint(width, height, r) ==
  LET t == QuarterTurns(r)
      x == 16 * Sin(t) * Sin(t) * Sin(t)
      y == -(13 * Cos(t) - 5 * Cos(2 * t) - 2 * Cos(3 * t) - Cos(4 * t))
  IN  [ x |-> Div(width * UNIT, 2) + x * HEART_SCALE * UNIT,
        y |-> Div(height * UNIT, 2) + y * HEART_SCALE * UNIT ]

\* getHeartPoints(width, height) with the random values rnd.
getHeartPoints(width, height, rnd) ==
  [i \in 1..PARTICLE_COUNT |-> HeartPoint(width, height, rnd[i][1])]

\* ------------------------------------------------------ the text sampler
\* The pixels of a width x height raster.
Pixels(width, height) == (0..(width - 1)) \X (0..(height - 1))

\* getImageData(...).data of a raster whose pixels in ink have alpha a and
\* are white, and whose other pixels are transparent black: four bytes per
\* pixel, row by row.
ImageData(width, height, ink, a) ==
  [k \in 0..(4 * width * height - 1) |->
     LET px == <<(k \div 4) % width, (k \div 4) \div width>>
     IN  IF px \in ink THEN (IF k % 4 = 3 THEN a ELSE 255) ELSE 0]

\* What fillText can leave in the raster: nothing, a glyph too faint to
\* count, a glyph over the whole raster, one over the last pixel only, one
\* over the first pixel only.
Rasters(width, height) ==
  { ImageData(width, height, {}, 0),
    ImageData(width, height, Pixels(width, height), 128),
    ImageData(width, height, Pixels(width, height), 255),
    ImageData(width, height, {<<width - 1, height - 1>>}, 255),
    ImageData(width, height, {<<0, 0>>}, 255) }

\* The font size getTextPoints asks for, in thousandths of a pixel.
FontSize(text, width) ==
  Min(BASE_TEXT_SIZE * MILLI,
      Div(width * 1400, IF Len(text) = 0 THEN 1 ELSE Len(text)))

\* The grid cells the scan visits, in scan order (step 2 on both axes).
GridCells(width, height) ==
  LET step == 2
      nx == (width + step - 1) \div step
      ny == (height + step - 1) \div step
  IN  [k \in 1..(nx * ny) |->
         [x |-> step * ((k - 1) % nx), y |-> step * ((k - 1) \div nx)]]

\* sampledPoints: the grid cells whose alpha exceeds 128, in scan order.
SampledPoints(width, height, imageData) ==
  LET Covered(c) == imageData[(c.y * width + c.x) * 4 + 3] > 128
  IN  SelectSeq(GridCells(width, height), Covered)

SetMin(S) == CHOOSE m \in S : \A n \in S : m <= n

SetMax(S) == CHOOSE m \in S : \A n \in S : m >= n

\* An offset that centers a box of the text's size but forgets where the
\* box was in the raster.
TextOffsetUnanchored(width, height, sampledPoints) ==
  LET xs == {sampledPoints[k].x : k \in DOMAIN sampledPoints}
      ys == {sampledPoints[k].y : k \in DOMAIN sampledPoints}
      textWidth == SetMax(xs \cup {0}) - SetMin(xs \cup {width})
      textHeight == SetMax(ys \cup {0}) - SetMin(ys \cup {height})
  IN  [ x |-> Div((width - textWidth) * UNIT, 2),
        y |-> Div((height - textHeight) * UNIT, 2) ]

\* An offset computed with the minima starting from 0, so that the box
\* always reaches the origin of the raster.
TextOffsetFromOrigin(width, height, sampledPoints) ==
  LET xs == {sampledPoints[k].x : k \in DOMAIN sampledPoints}
      ys == {sampledPoints[k].y : k \in DOMAIN sampledPoints}
      maxX == SetMax(xs \cup {0})
      maxY == SetMax(ys \cup {0})
  IN  [ x |-> Div((width - maxX) * UNIT, 2),
        y |-> Div((height - maxY) * UNIT, 2) ]

\* offsetX and offsetY of getTextPoints, in quarter pixels: the offsets that
\* move the bounding box of the sampled points to the middle of the raster.
TextOffset(width, height, sampledPoints) ==
  LET xs == {sampledPoints[k].x : k \in DOMAIN sampledPoints}
      ys == {sampledPoints[k].y : k \in DOMAIN sampledPoints}
      minX == SetMin(xs \cup {width})
      maxX == SetMax(xs \cup {0})
      minY == SetMin(ys \cup {height})
      maxY == SetMax(ys \cup {0})
      textWidth == maxX - minX
      textHeight == maxY - minY
  IN  [ x |-> Div((width - textWidth) * UNIT, 2) - minX * UNIT,
        y |-> Div((height - textHeight) * UNIT, 2) - minY * UNIT ]

\* (Math.random() - 0.5) * 1.5, in quarter pixels.
Jitter(r) == Div((r - 50) * 15 * UNIT, MILLI)

\* getTextPoints without the fallback: a raster with no sampled point gives
\* no points.
getTextPointsNoFallback(text, width, height, offscreenCtx, imageData, rnd) ==
  LET sampledPoints == SampledPoints(width, height, imageData)
      offset == TextOffset(width, height, sampledPoints)
  IN  IF ~offscreenCtx \/ Len(sampledPoints) = 0 THEN <<>>
      ELSE [i \in 1..PARTICLE_COUNT |->
              LET randomIndex == Floor(rnd[i][1] * Len(sampledPoints), 100)
                  p == sampledPoints[randomIndex + 1]
              IN  [ x |-> p.x * UNIT + offset.x + Jitter(rnd[i][2]),
                    y |-> p.y * UNIT + offset.y + Jitter(rnd[i][3]) ]]

\* getTextPoints(text, width, height), where offscreenCtx tells whether the
\* off-screen canvas gave a 2D context, imageData is what getImageData
\* returned and rnd are the random values.  (getImageData throws for an empty
\* raster: see TextSamplerThrows.)
getTextPoints(text, width, height, offscreenCtx, imageData, rnd) ==
  LET sampledPoints == SampledPoints(width, height, imageData)
      offset == TextOffset(width, height, sampledPoints)
  IN  IF ~offscreenCtx THEN <<>>
      ELSE IF Len(sampledPoints) = 0 THEN getHeartPoints(width, height, rnd)
      ELSE [i \in 1..PARTICLE_COUNT |->
              LET randomIndex == Floor(rnd[i][1] * Len(sampledPoints), 100)
                  p == sampledPoints[randomIndex + 1]
              IN  [ x |-> p.x * UNIT + offset.x + Jitter(rnd[i][2]),
                    y |-> p.y * UNIT + offset.y + Jitter(rnd[i][3]) ]]

\* getImageData(0, 0, width, height) throws IndexSizeError when the width or
\* the height is 0; getTextPoints reaches it only with a 2D context.
TextSamplerThrows(width, height, offscreenCtx) ==
  offscreenCtx /\ (width = 0 \/ height = 0)

\* ================================================================ state
VARIABLES
  phase,              \* "init" before the mount, "mounted", "unmounted"
  text,               \* the text state of App
  ctx2d,              \* whether canvas.getContext('2d') gives a context
  innerWidth,         \* window.innerWidth
  innerHeight,        \* window.innerHeight
  canvasWidth,        \* canvas.width
  canvasHeight,       \* canvas.height
  particles,          \* particles.current
  built,              \* how many Particle objects were constructed so far
  mouse,              \* mouse.current, in quarter pixels
  listeners,          \* the registered resize listeners, in order
  effects,            \* how many times the effect body has run
  cleanup,            \* the effect whose cleanup React holds, 0 for none
  pendingFrames,      \* the handles of the pending animation-frame requests
  animationFrameId,   \* animationFrameId.current
  frameSeq,           \* the last handle requestAnimationFrame returned
  tickCount,          \* executions of animate so far
  ticksSinceRefresh,  \* executions of animate since the last display refresh
  events,             \* text changes, resizes, pointer events, unmounts so far
  lastEvent,          \* the last operation that ran
  lastCall,           \* the last construction or retargeting: its inputs
                      \* (coverage: the sampled points of the raster, -1
                      \* when no raster was read), the points the sampler
                      \* returned, the particles before and after
  results,            \* every point sequence a sampler has returned
  sample,             \* one call of getTextPoints taken alone: its raster,
                      \* its random values and, once it ran, what it returned
  probe               \* one particle taken alone, its target fixed and the
                      \* mouse away: as constructed, before and after the
                      \* last update(), and the number of updates

\* The state of the App.
appVars ==
  << phase, text, ctx2d, innerWidth, innerHeight, canvasWidth, canvasHeight,
     particles, built, mouse, listeners, effects, cleanup, pendingFrames,
     animationFrameId, frameSeq, tickCount, ticksSinceRefresh, events,
     lastEvent, lastCall, results >>

vars == << appVars, sample, probe >>

\* The window sizes of the model, <<width, height>> in pixels.
Viewports == {<<3, 0>>, <<1, 1>>, <<5, 4>>}

\* mouse.current when the pointer is away, and where the pointer can be.
MouseAway == [x |-> -1000 * UNIT, y |-> -1000 * UNIT]

MousePositions == {[x |-> 1 * UNIT, y |-> 2 * UNIT]}

\* canvasRef.current is the canvas while App is mounted, and null otherwise.
CanvasRefAttached(ph) == ph = "mounted"

\* The part of the state the handlers work on, as one record.
Current ==
  [ canvasWidth |-> canvasWidth, canvasHeight |-> canvasHeight,
    particles |-> particles, built |-> built, listeners |-> listeners,
    effects |-> effects, cleanup |-> cleanup,
    pendingFrames |-> pendingFrames, animationFrameId |-> animationFrameId,
    frameSeq |-> frameSeq, tickCount |-> tickCount,
    ticksSinceRefresh |-> ticksSinceRefresh, lastCall |-> lastCall,
    results |-> results, threw |-> FALSE ]

\* The state after a handler: s is the record the handler ended with.
Commit(s) ==
  /\ canvasWidth' = s.canvasWidth
  /\ canvasHeight' = s.canvasHeight
  /\ particles' = s.particles
  /\ built' = s.built
  /\ listeners' = s.listeners
  /\ effects' = s.effects
  /\ cleanup' = s.cleanup
  /\ pendingFrames' = s.pendingFrames
  /\ animationFrameId' = s.animationFrameId
  /\ frameSeq' = s.frameSeq
  /\ tickCount' = s.tickCount
  /\ ticksSinceRefresh' = s.ticksSinceRefresh
  /\ lastCall' = s.lastCall
  /\ results' = s.results
  /\ sample' = sample
  /\ probe' = probe

\* The inputs of one handler run that the environment decides: whether the
\* off-screen canvas gives a 2D context, what fillText leaves in the raster,
\* and the values of Math.random() for the sampler and for the constructors.
\* A run that constructs the particles reads the random values only; one that
\* retargets for closureText reads the raster only if the trimmed text is not
\* empty and the off-screen canvas gives a context, and no random value if it
\* gives none.  What a run does not read is fixed, not enumerated.
NoRaster == <<>>

NoDraws == CHOOSE rnd \in SamplerDraws : TRUE

NoCtor == CHOOSE ctor \in ParticleDraws : TRUE

Inputs(constructs, closureText, width, height) ==
  IF constructs
    THEN [ offscreenCtx : {TRUE}, imageData : {NoRaster}, rnd : SamplerDraws,
           ctor : ParticleDraws ]
  ELSE IF Trim(closureText) = <<>>
    THEN [ offscreenCtx : {TRUE}, imageData : {NoRaster}, rnd : SamplerDraws,
           ctor : {NoCtor} ]
  ELSE [ offscreenCtx : {FALSE}, imageData : {NoRaster}, rnd : {NoDraws},
         ctor : {NoCtor} ]
       \cup [ offscreenCtx : {TRUE}, imageData : Rasters(width, height),
              rnd : SamplerDraws, ctor : {NoCtor} ]

\* The targets of a particle sequence, as points.
Targets(ps) == [i \in DOMAIN ps |-> [x |-> ps[i].targetX, y |-> ps[i].targetY]]

\* AssignTargets with a loop that starts one index late: the first particle
\* keeps its old target.
AssignTargetsFromSecond(ps, newPoints) ==
  [i \in DOMAIN ps |->
     IF 1 < i /\ i <= Len(newPoints)
       THEN [ps[i] EXCEPT !.targetX = newPoints[i].x, !.targetY = newPoints[i].y]
       ELSE ps[i]]

\* AssignTargets that also moves each particle onto its new target and stops
\* it, as a reset would.
AssignTargetsResetting(ps, newPoints) ==
  [i \in DOMAIN ps |->
     IF i <= Len(newPoints)
       THEN [ps[i] EXCEPT !.targetX = newPoints[i].x, !.targetY = newPoints[i].y,
                          !.x = newPoints[i].x, !.y = newPoints[i].y,
                          !.vx = 0, !.vy = 0]
       ELSE ps[i]]

\* particles.current.forEach((p, i) => { p.targetX = newPoints[i].x; ... }):
\* reading newPoints[i].x throws at the first i past the end of newPoints, and
\* the particles before it keep their new targets.
AssignTargets(ps, newPoints) ==
  [i \in DOMAIN ps |->
     IF i <= Len(newPoints)
       THEN [ps[i] EXCEPT !.targetX = newPoints[i].x, !.targetY = newPoints[i].y]
       ELSE ps[i]]

\* updateTargets of the effect that closed over closureText.
updateTargets(s, ph, closureText, in) ==
  LET width == s.canvasWidth
      height == s.canvasHeight
      heart == Trim(closureText) = <<>>
      throws == ~heart /\ TextSamplerThrows(width, height, in.offscreenCtx)
      newPoints ==
        IF heart
          THEN getHeartPoints(width, height, in.rnd)
          ELSE getTextPoints(closureText, width, height, in.offscreenCtx,
                             in.imageData, in.rnd)
      after == AssignTargets(s.particles, newPoints)
      call == [ kind |-> "retarget", text |-> closureText, width |-> width,
                height |-> height, offscreenCtx |-> in.offscreenCtx,
                coverage |-> IF heart \/ throws \/ ~in.offscreenCtx THEN -1
                             ELSE Len(SampledPoints(width, height, in.imageData)),
                rnd |-> in.rnd, before |-> s.particles ]
  IN  IF ~CanvasRefAttached(ph) THEN s
      ELSE IF throws
        THEN [s EXCEPT !.threw = TRUE,
                       !.lastCall = call @@ [points |-> <<>>, after |-> s.particles,
                                             threw |-> TRUE]]
        ELSE [s EXCEPT !.particles = after,
                       !.results = @ \cup {newPoints},
                       !.threw = Len(newPoints) < Len(s.particles),
                       !.lastCall = call @@ [points |-> newPoints, after |-> after,
                                             threw |-> Len(newPoints) < Len(s.particles)]]

\* handleResize without the test of particles.current.length: every call
\* constructs the particles anew.
handleResizeRebuilding(s, ph, closureText, width, height, in) ==
  LET initialPoints == getHeartPoints(width, height, in.rnd)
      made == [i \in 1..Len(initialPoints) |->
                 NewParticle(s.built + i, initialPoints[i].x, initialPoints[i].y,
                             width, height, in.ctor[i])]
  IN  [s EXCEPT
         !.canvasWidth = width,
         !.canvasHeight = height,
         !.threw = FALSE,
         !.particles = made,
         !.built = @ + Len(made),
         !.results = @ \cup {initialPoints},
         !.lastCall = [ kind |-> "construct", text |-> closureText,
                        width |-> width, height |-> height,
                        offscreenCtx |-> TRUE, coverage |-> -1,
                        rnd |-> in.rnd, points |-> initialPoints,
                        before |-> <<>>, after |-> made, threw |-> FALSE ]]

\* handleResize of the effect that closed over closureText, with the window
\* at width x height.
handleResize(s, ph, closureText, width, height, in) ==
  LET sized == [s EXCEPT !.canvasWidth = width, !.canvasHeight = height,
                         !.threw = FALSE]
      initialPoints == getHeartPoints(width, height, in.rnd)
      made == [i \in 1..Len(initialPoints) |->
                 NewParticle(s.built + i, initialPoints[i].x, initialPoints[i].y,
                             width, height, in.ctor[i])]
  IN  IF Len(s.particles) = 0
        THEN [sized EXCEPT
                !.particles = made,
                !.built = @ + Len(made),
                !.results = @ \cup {initialPoints},
                !.lastCall = [ kind |-> "construct", text |-> closureText,
                               width |-> width, height |-> height,
                               offscreenCtx |-> TRUE, coverage |-> -1,
                               rnd |-> in.rnd, points |-> initialPoints,
                               before |-> <<>>, after |-> made,
                               threw |-> FALSE ]]
        ELSE updateTargets(sized, ph, closureText, in)

\* animate: one tick and the request of the next frame.
animate(s, m) ==
  [s EXCEPT
     !.particles = [i \in DOMAIN s.particles |-> Update(s.particles[i], m.x, m.y)],
     !.tickCount = @ + 1,
     !.ticksSinceRefresh = @ + 1,
     !.frameSeq = @ + 1,
     !.pendingFrames = @ \cup {s.frameSeq + 1},
     !.animationFrameId = s.frameSeq + 1]

\* A cleanup that removes the listener and leaves the frame request pending.
CleanupKeepingFrame(s, e) ==
  [s EXCEPT
     !.listeners = SelectSeq(s.listeners, LAMBDA l : l.effect # e),
     !.cleanup = 0]

\* A cleanup that cancels the frame request and leaves the listener.
CleanupKeepingListener(s, e) ==
  [s EXCEPT
     !.pendingFrames = @ \ {s.animationFrameId},
     !.cleanup = 0]

\* The cleanup the effect e returned.
Cleanup(s, e) ==
  [s EXCEPT
     !.listeners = SelectSeq(s.listeners, LAMBDA l : l.effect # e),
     !.pendingFrames = @ \ {s.animationFrameId},
     !.cleanup = 0]

\* The effect body for the text closureText.  An effect that returns early
\* or throws leaves React no cleanup.  (React attaches canvasRef before it
\* runs the effect, so the canvas is there; has2d tells whether
\* canvas.getContext('2d') gave a context.)
Effect(s, ph, has2d, closureText, width, height, m, in) ==
  LET e == s.effects + 1
      begun == [s EXCEPT !.effects = e, !.cleanup = 0]
      listening == [begun EXCEPT !.listeners =
                      Append(@, [effect |-> e, text |-> closureText])]
      resized == handleResize(listening, ph, closureText, width, height, in)
  IN  IF ~has2d THEN begun
      ELSE IF resized.threw THEN resized
      ELSE [animate(resized, m) EXCEPT !.cleanup = e]

\* =============================================================== actions
AppInit ==
  /\ phase = "init"
  /\ text = <<>>
  /\ ctx2d \in BOOLEAN
  /\ \E vp \in Viewports : innerWidth = vp[1] /\ innerHeight = vp[2]
  /\ canvasWidth = 300
  /\ canvasHeight = 150
  /\ particles = <<>>
  /\ built = 0
  /\ mouse = MouseAway
  /\ listeners = <<>>
  /\ effects = 0
  /\ cleanup = 0
  /\ pendingFrames = {}
  /\ animationFrameId = 0
  /\ frameSeq = 0
  /\ tickCount = 0
  /\ ticksSinceRefresh = 0
  /\ events = 0
  /\ lastEvent = "none"
  /\ lastCall = [kind |-> "none"]
  /\ results = {}

\* No call of getTextPoints is looked at alone while the App runs.
NoSample ==
  [ width |-> 0, height |-> 0, ink |-> {}, rnd |-> <<>>, done |-> FALSE,
    candidates |-> <<>>, points |-> <<>> ]

\* No particle is followed alone while the App runs.
NoProbe == [n |-> 0, start |-> <<>>, prev |-> <<>>, cur |-> <<>>]

\* The App as constructed, before it mounts.
Init ==
  /\ AppInit
  /\ sample = NoSample
  /\ probe = NoProbe

\* React unmounts the root when an effect throws; nothing else ends a mount.
PhaseAfter(s) == IF s.threw THEN "unmounted" ELSE "mounted"

\* The component mounts: React commits the canvas and runs the effect.
Mount ==
  /\ phase = "init"
  /\ \E in \in Inputs(particles = <<>>, text, innerWidth, innerHeight) :
       /\ \E s \in {Effect(Current, "mounted", ctx2d, text, innerWidth,
                          innerHeight, mouse, in)} :
            /\ Commit(s)
            /\ phase' = PhaseAfter(s)
  /\ lastEvent' = "mount"
  /\ UNCHANGED <<text, ctx2d, innerWidth, innerHeight, mouse, events>>

\* onChange delivers v: setText(v), and React runs the cleanup of the last
\* effect and then the effect for v.
ChangeText(v) ==
  /\ phase = "mounted"
  /\ v # text
  /\ events < MaxEvents
  /\ tickCount < MaxTicks
  /\ \E in \in Inputs(particles = <<>>, v, innerWidth, innerHeight) :
       /\ \E s \in {Effect(IF cleanup # 0 THEN Cleanup(Current, cleanup)
                                          ELSE Current,
                          "mounted", ctx2d, v, innerWidth, innerHeight,
                          mouse, in)} :
            /\ Commit(s)
            /\ phase' = PhaseAfter(s)
  /\ text' = v
  /\ events' = events + 1
  /\ lastEvent' = "text"
  /\ UNCHANGED <<ctx2d, innerWidth, innerHeight, mouse>>

\* Every registered listener runs, in order; one that throws does not stop
\* the others.
RECURSIVE Dispatch(_, _, _, _, _, _)
Dispatch(s, ph, ls, width, height, in) ==
  IF ls = <<>> THEN s
  ELSE Dispatch(handleResize(s, ph, Head(ls).text, width, height, in), ph,
                Tail(ls), width, height, in)

\* The text the registered listener closed over (the cleanup of an effect
\* removes its listener before the next effect adds one, so there is one).
ListenerText == IF listeners = <<>> THEN <<>> ELSE Head(listeners).text

\* The window takes the new size vp and fires its resize event (a window
\* without the App and without a listener is left alone).
Resize(vp) ==
  /\ phase = "mounted" \/ listeners # <<>>
  /\ vp # <<innerWidth, innerHeight>>
  /\ events < MaxEvents
  /\ \E in \in Inputs(particles = <<>>, ListenerText, vp[1], vp[2]) :
       /\ \E s \in {Dispatch(Current, phase, listeners, vp[1], vp[2], in)} :
            Commit(s)
  /\ innerWidth' = vp[1]
  /\ innerHeight' = vp[2]
  /\ events' = events + 1
  /\ lastEvent' = "resize"
  /\ UNCHANGED <<phase, text, ctx2d, mouse>>

\* The callbacks of n pending frame requests run.
RECURSIVE RunFrames(_, _, _)
RunFrames(s, m, n) == IF n = 0 THEN s ELSE RunFrames(animate(s, m), m, n - 1)

\* A display refresh: the browser runs the callbacks of the frame requests
\* that are pending, each of them animate.
Refresh ==
  /\ phase # "init"
  /\ tickCount + Cardinality(pendingFrames) <= MaxTicks
  /\ \E s \in {RunFrames([Current EXCEPT !.pendingFrames = {},
                                          !.ticksSinceRefresh = 0],
                          mouse, Cardinality(pendingFrames))} :
       Commit(s)
  /\ lastEvent' = "refresh"
  /\ UNCHANGED <<phase, text, ctx2d, innerWidth, innerHeight, mouse, events>>

\* onMouseMove
MouseMove(p) ==
  /\ phase = "mounted"
  /\ events < MaxEvents
  /\ mouse' = p
  /\ events' = events + 1
  /\ lastEvent' = "mousemove"
  /\ Commit(Current)
  /\ UNCHANGED <<phase, text, ctx2d, innerWidth, innerHeight>>

\* onMouseLeave
MouseLeave ==
  /\ phase = "mounted"
  /\ events < MaxEvents
  /\ mouse' = MouseAway
  /\ events' = events + 1
  /\ lastEvent' = "mouseleave"
  /\ Commit(Current)
  /\ UNCHANGED <<phase, text, ctx2d, innerWidth, innerHeight>>

\* The component unmounts: React runs the cleanup it holds.
Unmount ==
  /\ phase = "mounted"
  /\ events < MaxEvents
  /\ Commit(IF cleanup # 0 THEN Cleanup(Current, cleanup) ELSE Current)
  /\ phase' = "unmounted"
  /\ events' = events + 1
  /\ lastEvent' = "unmount"
  /\ UNCHANGED <<text, ctx2d, innerWidth, innerHeight, mouse>>

Next ==
  \/ Mount
  \/ \E v \in Texts : ChangeText(v)
  \/ \E vp \in Viewports : Resize(vp)
  \/ Refresh
  \/ \E p \in MousePositions : MouseMove(p)
  \/ MouseLeave
  \/ Unmount

Spec == Init /\ [][Next]_vars

\* ------------------------------------------- getTextPoints taken alone
\* The rasters of the sampler taken alone, <<width, height>> in pixels: a
\* line of text, a column, and a block.
SampleRasters == {<<21, 1>>, <<1, 21>>, <<5, 3>>}

\* What fillText can leave where the scan looks: any set of the grid cells
\* (the scan reads no other pixel), each fully opaque.
Masks(width, height) ==
  LET cells == GridCells(width, height)
  IN  SUBSET {<<cells[k].x, cells[k].y>> : k \in DOMAIN cells}

\* The candidate points of getTextPoints: the sampled points moved by the
\* centering offset, before a point is drawn and jittered, in quarter pixels.
Candidates(width, height, imageData) ==
  LET sampledPoints == SampledPoints(width, height, imageData)
      offset == TextOffset(width, height, sampledPoints)
  IN  [k \in DOMAIN sampledPoints |->
         [ x |-> sampledPoints[k].x * UNIT + offset.x,
           y |-> sampledPoints[k].y * UNIT + offset.y ]]

\* A raster and the random values are chosen; the App stays as constructed.
SamplerInit ==
  /\ AppInit
  /\ ctx2d
  /\ innerWidth = 1
  /\ \E r \in SampleRasters : \E ink \in Masks(r[1], r[2]) :
       \E rnd \in SamplerDraws :
         sample = [NoSample EXCEPT !.width = r[1], !.height = r[2],
                                   !.ink = ink, !.rnd = rnd]
  /\ probe = NoProbe

\* getTextPoints runs on the chosen raster.
SampleText ==
  /\ ~sample.done
  /\ sample.width > 0
  /\ LET imageData == ImageData(sample.width, sample.height, sample.ink, 255)
     IN  sample' =
           [sample EXCEPT
              !.done = TRUE,
              !.candidates = Candidates(sample.width, sample.height, imageData),
              !.points = getTextPoints(<<" ", "A">>, sample.width,
                                       sample.height, TRUE, imageData,
                                       sample.rnd)]
  /\ UNCHANGED <<appVars, probe>>

SamplerNext == SampleText

SamplerSpec == SamplerInit /\ [][SamplerNext]_vars

\* ------------------------------------------------- one particle taken alone
\* The window the particle is constructed in, in pixels, and the targets it
\* can be given, in quarter pixels: the middle of the window and its origin.
ProbeWindow == <<200, 100>>

ProbeTargets ==
  { [x |-> 100 * UNIT, y |-> 50 * UNIT], [x |-> 0, y |-> 0] }

\* The random values of the constructor that decide the motion: those of x,
\* y, vx, vy and ease, each at the low end, the middle and the high end of
\* Math.random(); the others do not enter the motion.
ProbeDraws ==
  { <<r[1], r[2], r[3], r[4], 0, r[5], 0, 50, 0>> :
      r \in {0, 50, 99} \X {0, 50, 99} \X {0, 50, 99} \X {0, 50, 99}
             \X {0, 50, 99} }

\* A particle is constructed for a target; the App stays as constructed.
ParticleInit ==
  /\ AppInit
  /\ ctx2d
  /\ innerWidth = 1
  /\ sample = NoSample
  /\ \E t \in ProbeTargets : \E r \in ProbeDraws :
       \E p \in {NewParticle(1, t.x, t.y, ProbeWindow[1], ProbeWindow[2], r)} :
         probe = [n |-> 0, start |-> p, prev |-> p, cur |-> p]

\* update() runs on the particle, the mouse away.
UpdateParticle ==
  /\ probe.n < MaxUpdates
  /\ probe.cur # <<>>
  /\ probe' = [probe EXCEPT
                 !.n = @ + 1,
                 !.prev = probe.cur,
                 !.cur = Update(probe.cur, MouseAway.x, MouseAway.y)]
  /\ UNCHANGED <<appVars, sample>>

ParticleNext == UpdateParticle

ParticleSpec == ParticleInit /\ [][ParticleNext]_vars

\* ================================================================ claims
\* Every field of a particle but its target.
Untargeted(p) == [f \in (DOMAIN p) \ {"targetX", "targetY"} |-> p[f]]

\* The last operation sampled a shape for a window of at least 1 x 1.
SampledInViewport ==
  /\ lastCall.kind \in {"construct", "retarget"}
  /\ lastCall.width >= 1
  /\ lastCall.height >= 1

\* C1: for every text and every viewport of at least 1 x 1, the point
\* sequence the sampler hands to retargeting (heart, text, zero-coverage
\* fallback, no off-screen context) has exactly PARTICLE_COUNT points.
C1_SamplerCount ==
  SampledInViewport => Len(lastCall.points) = PARTICLE_COUNT

\* C2: once the first handleResize has constructed the particles, the
\* collection is never replaced or resized: it has PARTICLE_COUNT entries and
\* the particle at each index is the one constructed there.
C2_ParticlesKept ==
  built > 0 =>
    /\ Len(particles) = PARTICLE_COUNT
    /\ \A i \in 1..Len(particles) : particles[i].id = i

\* C2 witness: a text change and a resize retargeted the particles, and ticks
\* ran on them.
C2_Witness ==
  /\ built > 0
  /\ events >= 2
  /\ text # <<>>
  /\ lastEvent = "resize"
  /\ lastCall.kind = "retarget"
  /\ tickCount >= 2

\* C3: after any text changes and resizes of a mounted App in a window of at
\* least 1 x 1, the targets were sampled for the current text and the current
\* canvas size: by the heart sampler if the trimmed text is empty, otherwise
\* by the text sampler applied to the current text.
C3_TargetsCurrent ==
  (phase = "mounted" /\ particles # <<>> /\ canvasWidth >= 1 /\ canvasHeight >= 1) =>
    /\ lastCall.width = canvasWidth
    /\ lastCall.height = canvasHeight
    /\ Targets(particles) = lastCall.points
    /\ IF Trim(text) = <<>>
         THEN lastCall.points
                = getHeartPoints(canvasWidth, canvasHeight, lastCall.rnd)
         ELSE /\ lastCall.kind = "retarget"
              /\ lastCall.text = text
              /\ ~lastCall.threw

\* C4: whenever a tick can start, one sampler result S gives every particle
\* its target: the target of particle i is S[i].
C4_TargetsFromOneSample ==
  (pendingFrames # {} /\ particles # <<>>) =>
    \E S \in results :
      /\ Len(S) = Len(particles)
      /\ \A i \in 1..Len(particles) :
           particles[i].targetX = S[i].x /\ particles[i].targetY = S[i].y

\* C4 witness: a tick ran after a second sampler call retargeted the
\* particles, and the next tick is pending.
C4_Witness ==
  /\ pendingFrames # {}
  /\ lastCall.kind = "retarget"
  /\ lastCall.before # lastCall.after
  /\ Cardinality(results) >= 2
  /\ lastEvent = "refresh"
  /\ ticksSinceRefresh = 1

\* C5: a retargeting step changes only targetX and targetY of each particle:
\* position, velocity, opacity, color, size, ease and friction are as before.
C5_RetargetKeepsRest ==
  lastCall.kind = "retarget" =>
    /\ Len(lastCall.after) = Len(lastCall.before)
    /\ \A i \in 1..Len(lastCall.before) :
         Untargeted(lastCall.after[i]) = Untargeted(lastCall.before[i])

\* C5 witness: a retargeting step moved the targets of particles that ticks
\* had already moved.
C5_Witness ==
  /\ lastCall.kind = "retarget"
  /\ Targets(lastCall.after) # Targets(lastCall.before)
  /\ \E i \in 1..Len(lastCall.before) : lastCall.before[i].vx # 0
  /\ lastEvent = "resize"
  /\ tickCount >= 2

\* The largest single-tick step of the opacity: the largest twinkle speed the
\* constructor assigns, 0.01 + 0.02, in thousandths.
MaxTwinkleStep == 10 + 20

\* C6: after one or more update() calls the opacity of every particle lies
\* in [0.4 - e, 1.0 + e], e the largest single-tick opacity step.
C6_OpacityBounded ==
  tickCount >= 1 =>
    \A i \in 1..Len(particles) :
      /\ particles[i].opacity >= 400 - MaxTwinkleStep
      /\ particles[i].opacity <= 1000 + MaxTwinkleStep

\* C7: after the teardown no tick runs and no animation frame is requested.
C7_NoTickAfterTeardown ==
  [][phase = "unmounted" => (tickCount' = tickCount /\ frameSeq' = frameSeq)]_vars

\* C7 witness: the App was torn down after a text change had re-run the
\* effect, and a display refresh came after the teardown.
C7_Witness ==
  /\ phase = "unmounted"
  /\ lastEvent = "refresh"
  /\ cleanup = 0
  /\ effects >= 2
  /\ tickCount >= 2
  /\ lastCall.kind = "retarget"
  /\ ~lastCall.threw

\* C8: when the text is white space only, or the raster of the text has no
\* grid cell above the coverage threshold, retargeting assigns the targets
\* the heart sampler gives for the same viewport size and random draws.
C8_FallbackIsHeart ==
  (/\ lastCall.kind = "retarget"
   /\ Trim(lastCall.text) = <<>> \/ lastCall.coverage = 0) =>
    /\ lastCall.points
         = getHeartPoints(lastCall.width, lastCall.height, lastCall.rnd)
    /\ Targets(lastCall.after) = lastCall.points
    /\ Targets(particles) = lastCall.points

\* C8 witness: a text that is not white space left no sampled point in the
\* raster of a window of at least 1 x 1, and the particles were retargeted.
C8_Witness ==
  /\ lastCall.kind = "retarget"
  /\ Trim(lastCall.text) # <<>>
  /\ lastCall.coverage = 0
  /\ lastCall.width >= 1
  /\ lastCall.height >= 1
  /\ Targets(lastCall.after) # Targets(lastCall.before)

\* C9: no shape is sampled and no particle is constructed while the viewport
\* width or height is zero.
C9_NoDegenerateSampling ==
  lastCall.kind \in {"construct", "retarget"} =>
    lastCall.width >= 1 /\ lastCall.height >= 1

\* C10: at most one tick happens between two consecutive display refreshes:
\* once a display refresh has followed a tick (ticks ran before the last
\* refresh), at most one tick has run since that refresh.
C10_OneTickPerRefresh ==
  ticksSinceRefresh < tickCount => ticksSinceRefresh <= 1

\* C11: from mount until teardown the loop never stalls: after the mount,
\* after every tick and after every text change or resize handled while the
\* App is mounted (with a 2D context for the canvas, in a window of at least
\* 1 x 1), a next tick is scheduled.
C11_LoopNeverStalls ==
  [][(/\ phase \in {"init", "mounted"}
      /\ ctx2d
      /\ innerWidth' >= 1
      /\ innerHeight' >= 1
      /\ lastEvent' \in {"mount", "text", "resize", "refresh"})
     => pendingFrames' # {}]_vars

\* C15: the target of a particle changes only at construction and in a
\* retargeting step: after any ticks and mouse events that followed it, every
\* particle has the target the last construction or retargeting left it.
C15_TargetsOnlyRetargeted ==
  lastCall.kind \in {"construct", "retarget"} =>
    Targets(particles) = Targets(lastCall.after)

\* C15 witness: the mouse moved next to the particles and ticks moved them
\* after the last retargeting.
C15_Witness ==
  /\ lastCall.kind = "retarget"
  /\ ~lastCall.threw
  /\ mouse # MouseAway
  /\ lastEvent = "refresh"
  /\ tickCount >= 3
  /\ \A i \in 1..Len(particles) :
       particles[i].x # lastCall.after[i].x \/ particles[i].y # lastCall.after[i].y

\* C17: at every instant at most one animation-frame request is pending and
\* at most one resize listener is registered.
C17_OneLoop ==
  /\ Cardinality(pendingFrames) <= 1
  /\ Len(listeners) <= 1

\* C17 witness: two text changes have re-run the effect, and one frame
\* request and one listener are there.
C17_Witness ==
  /\ phase = "mounted"
  /\ effects >= 3
  /\ Cardinality(pendingFrames) = 1
  /\ Len(listeners) = 1
  /\ lastEvent = "text"

\* The magnitude of a number.
Abs(n) == IF n < 0 THEN -n ELSE n

\* C16 as stated: ease, friction and twinkleSpeed are fixed at construction:
\* a step that constructs no particle leaves the three fields of every
\* particle as they were.
C16_ConstantsFixed ==
  [][built' = built =>
       \A i \in 1..Len(particles) :
         /\ particles'[i].ease = particles[i].ease
         /\ particles'[i].friction = particles[i].friction
         /\ particles'[i].twinkleSpeed = particles[i].twinkleSpeed]_vars

\* C16 amended: ease and friction are fixed at construction, and twinkleSpeed
\* keeps the magnitude the constructor gave it; update() changes its sign only.
C16_ConstantsFixedUpToSign ==
  [][built' = built =>
       \A i \in 1..Len(particles) :
         /\ particles'[i].ease = particles[i].ease
         /\ particles'[i].friction = particles[i].friction
         /\ Abs(particles'[i].twinkleSpeed) = Abs(particles[i].twinkleSpeed)]_vars

\* C16 witness: after a retargeting and some ticks a particle twinkles
\* downwards, its twinkleSpeed negated by update().
C16_Witness ==
  /\ lastCall.kind = "retarget"
  /\ tickCount >= 2
  /\ \E i \in 1..Len(particles) : particles[i].twinkleSpeed < 0

\* The sum of a sequence of numbers.
RECURSIVE SumOf(_)
SumOf(q) == IF q = <<>> THEN 0 ELSE Head(q) + SumOf(Tail(q))

\* The x and the y coordinates of a sequence of points.
Xs(points) == [k \in DOMAIN points |-> points[k].x]

Ys(points) == [k \in DOMAIN points |-> points[k].y]

\* The extent of a sequence of numbers: its largest less its smallest.
Extent(q) ==
  SetMax({q[k] : k \in DOMAIN q}) - SetMin({q[k] : k \in DOMAIN q})

\* The mean of the numbers q is within tolerance of the middle of 0..size
\* (all in quarter pixels; compared after multiplying by 2 * Len(q)).
MeanNearMiddle(q, size, tolerance) ==
  Abs(2 * SumOf(q) - Len(q) * size * UNIT) <= 2 * Len(q) * tolerance

\* C12 as stated: for a mask with a sampled cell, the centroid of the
\* candidate points (after the offset, before jitter) is within 2 pixels of
\* the viewport center on both axes.
C12_CentroidCentred ==
  (sample.done /\ Len(sample.candidates) > 0) =>
    /\ MeanNearMiddle(Xs(sample.candidates), sample.width, 2 * UNIT)
    /\ MeanNearMiddle(Ys(sample.candidates), sample.height, 2 * UNIT)

\* C12 amended: for a mask with a sampled cell, the centroid of the candidate
\* points is within half the extent of their bounding box of the viewport
\* center on both axes: half textWidth on x, half textHeight on y.
C12_CentroidInCentredBox ==
  (sample.done /\ Len(sample.candidates) > 0) =>
    /\ MeanNearMiddle(Xs(sample.candidates), sample.width,
                      Div(Extent(Xs(sample.candidates)), 2))
    /\ MeanNearMiddle(Ys(sample.candidates), sample.height,
                      Div(Extent(Ys(sample.candidates)), 2))

\* C12 witness: a line of text whose ink is heavier on one side: three or
\* more candidates whose centroid is more than 2 pixels from the center.
C12_Witness ==
  /\ sample.done
  /\ Len(sample.candidates) >= 3
  /\ ~MeanNearMiddle(Xs(sample.candidates), sample.width, 2 * UNIT)

\* C14: for a mask with a sampled cell, the bounding box of the candidate
\* points is centered in the viewport, (min + max) / 2 = size / 2 on both
\* axes, wherever the glyph is in the raster, and every target returned is,
\* before its jitter, inside [0, width] x [0, height].
C14_BoxCentred ==
  (sample.done /\ Len(sample.candidates) > 0) =>
    /\ SetMin({p.x : p \in {sample.candidates[k] : k \in DOMAIN sample.candidates}})
         + SetMax({p.x : p \in {sample.candidates[k] : k \in DOMAIN sample.candidates}})
         = sample.width * UNIT
    /\ SetMin({p.y : p \in {sample.candidates[k] : k \in DOMAIN sample.candidates}})
         + SetMax({p.y : p \in {sample.candidates[k] : k \in DOMAIN sample.candidates}})
         = sample.height * UNIT
    /\ Len(sample.points) = PARTICLE_COUNT
    /\ \A i \in DOMAIN sample.points :
         /\ sample.points[i].x - Jitter(sample.rnd[i][2]) \in 0..(sample.width * UNIT)
         /\ sample.points[i].y - Jitter(sample.rnd[i][3]) \in 0..(sample.height * UNIT)

\* C14 witness: a glyph drawn off the middle of the raster (its ink ends
\* before the last grid column), sampled at two or more cells, and targets
\* returned with jitter.
C14_Witness ==
  /\ sample.done
  /\ Len(sample.candidates) >= 2
  /\ sample.width > 1
  /\ \A px \in sample.ink : px[1] < sample.width - 5
  /\ \E i \in DOMAIN sample.points : Jitter(sample.rnd[i][2]) # 0

\* The square of the distance of a particle from its target.
DistSq(p) ==
  (p.targetX - p.x) * (p.targetX - p.x) + (p.targetY - p.y) * (p.targetY - p.y)

\* The distance below which a particle counts as having converged.
ConvergenceTolerance == 8 * UNIT

\* The speed of p on each axis is within a quarter of the offset from the
\* target it was constructed with plus the speed it was constructed with.
VelocityBounded(start, p) ==
  /\ 4 * Abs(p.vx) <= Abs(start.targetX - start.x) + 4 * Abs(start.vx)
  /\ 4 * Abs(p.vy) <= Abs(start.targetY - start.y) + 4 * Abs(start.vy)

\* The offset of p from its target on each axis is within the offset it was
\* constructed with plus four times the speed it was constructed with.
OffsetBounded(start, p) ==
  /\ Abs(p.targetX - p.x) <= Abs(start.targetX - start.x) + 4 * Abs(start.vx)
  /\ Abs(p.targetY - p.y) <= Abs(start.targetY - start.y) + 4 * Abs(start.vy)

\* C13 as stated: with a fixed target and the mouse away, every update()
\* brings the particle closer to its target unless it was within the
\* convergence tolerance, and the velocity stays bounded.
C13_DistanceDecreases ==
  probe.n >= 1 =>
    /\ DistSq(probe.prev) > ConvergenceTolerance * ConvergenceTolerance
         => DistSq(probe.cur) < DistSq(probe.prev)
    /\ VelocityBounded(probe.start, probe.cur)

\* C13 amended: with a fixed target and the mouse away, after every update()
\* the particle's offset from its target is, on each axis, at most the
\* initial offset plus four times the initial speed, and its speed at most a
\* quarter of the initial offset plus the initial speed.
C13_MotionBounded ==
  probe.n >= 1 =>
    /\ OffsetBounded(probe.start, probe.cur)
    /\ VelocityBounded(probe.start, probe.cur)

\* C13 witness: a particle constructed at rest on x, 100 pixels left of its
\* target, has passed the target and is moving away from it on the far side,
\* more than the tolerance from it.
C13_Witness ==
  /\ probe.n >= 10
  /\ probe.start.vx = 0
  /\ probe.start.x < probe.start.targetX
  /\ probe.cur.x > probe.cur.targetX + ConvergenceTolerance
  /\ probe.cur.vx > 0
  /\ DistSq(probe.cur) > DistSq(probe.prev)

====
